---- MODULE Spec2Model ----
(***************************************************************************)
(* Document similarity checker: the command-line run (checker.py: main,    *)
(* load_documents, generate_report) and the Streamlit run (gui_app.py).    *)
(*                                                                         *)
(* Numbers.  Similarities, scores and thresholds are fixed-point numbers   *)
(* with Scale units per 1.0: a matrix entry m stands for m / Scale, a      *)
(* score s stands for s / Scale percent, so 85 percent is 85 * Scale.      *)
(*                                                                         *)
(* Documents.  A directory entry / uploaded file is a record               *)
(* [ext, body, readable]; its name is its position in the sorted listing   *)
(* (names are therefore unique).  body is the text a successful read or    *)
(* parse yields, a sequence of characters; readable = FALSE means the read *)
(* or the PDF/DOCX parser raises.                                          *)
(***************************************************************************)
EXTENDS Integers, Sequences, FiniteSets, TLC

VARIABLES
    app,            \* "cli" (checker.py), "gui" (gui_app.py), "none" (classifier only)
    folder_exists,  \* cli: SUBMISSIONS_DIR is a directory
    entries,        \* cli: sorted directory listing; gui: uploaded_files
    thr_input,      \* cli: the line typed at the threshold prompt
    pc,             \* position of the run
    threshold,      \* cli: fraction (Scale = 1.0); gui: percent (Scale = 1%); -1 unset
    files,          \* cli: sorted(folder.glob("*.*")); gui: uploaded_files (entry indices)
    idx,            \* loop cursor of the extraction loop (1-based)
    texts,          \* texts of the valid documents
    valid_files,    \* cli: valid_files; gui: names
    warnings,       \* surfaced per-document warnings <<kind, name>>
    vec_calls,      \* corpus sizes handed to TfidfVectorizer.fit_transform
    sim_matrix,     \* <<>> or <<M>>, M the similarity matrix
    results,        \* list of (name, name, score)
    stats,          \* <<>> or <<summary record>>
    display,        \* console lines (cli) / st.write lines (gui)
    reports,        \* <<>> or <<record of written reports>>
    outcome,        \* how the run ended, "running" until then
    rl_score,       \* classifier run: the score classified
    rl_cli,         \* classifier run: label of checker.similarity_risk_level
    rl_gui          \* classifier run: label of gui_app.similarity_risk_level

vars == <<app, folder_exists, entries, thr_input, pc, threshold, files, idx,
          texts, valid_files, warnings, vec_calls, sim_matrix, results, stats,
          display, reports, outcome, rl_score, rl_cli, rl_gui>>

rl_vars == <<rl_score, rl_cli, rl_gui>>

----------------------------------------------------------------------------
(* Bounds *)

MaxFiles == 3       \* directory entries / uploaded files per run

Resolution == 1     \* fixed-point steps per 0.01

Scale == 100 * Resolution

----------------------------------------------------------------------------
(* Inputs *)

SupportedKinds ==
    { [ext |-> "txt",  body |-> <<"a">>,           readable |-> TRUE],
      [ext |-> "PDF",  body |-> <<" ", "b", " ">>, readable |-> TRUE],
      [ext |-> "txt",  body |-> <<" ", " ">>,      readable |-> TRUE],
      [ext |-> "docx", body |-> <<>>,              readable |-> TRUE],
      [ext |-> "pdf",  body |-> <<"a">>,           readable |-> FALSE] }

\* a folder can also hold files of other types and files without a dot
FolderKinds ==
    SupportedKinds \cup
    { [ext |-> "md", body |-> <<"a">>, readable |-> TRUE],
      [ext |-> "",   body |-> <<"b">>, readable |-> TRUE] }

Listings(kinds) == UNION { [1..n -> kinds] : n \in 0..MaxFiles }

ThresholdInputs == {"abc", "50", "85", "150"}

SliderValues == {50, 85}

\* similarities the vectorizer / cosine_similarity may return (0.20, 0.60, 0.90)
MatrixValues == { (20 * Scale) \div 100, (60 * Scale) \div 100, (90 * Scale) \div 100 }

----------------------------------------------------------------------------
(* Pure functions *)

\* str.lower() on the extensions that occur
Lower(e) ==
    CASE e = "PDF"  -> "pdf"
      [] e = "TXT"  -> "txt"
      [] e = "DOCX" -> "docx"
      [] OTHER      -> e

IsSpace(c) == c \in {" ", "\n", "\t"}

RECURSIVE LStrip(_)
LStrip(s) ==
    IF s = <<>> THEN <<>>
    ELSE IF IsSpace(Head(s)) THEN LStrip(Tail(s)) ELSE s

RECURSIVE RStrip(_)
RStrip(s) ==
    IF s = <<>> THEN <<>>
    ELSE IF IsSpace(s[Len(s)]) THEN RStrip(SubSeq(s, 1, Len(s) - 1)) ELSE s

\* str.strip()
Strip(s) == RStrip(LStrip(s))

NonEmptyTextUnstripped(text) == text # <<>>

\* `if text.strip():`
NonEmptyText(text) == Strip(text) # <<>>

\* float(input(...).strip()): the value in percent, or a ValueError
ParseFloat(s) ==
    CASE s = "50"  -> [ok |-> TRUE,  val |-> 50 * Scale]
      [] s = "85"  -> [ok |-> TRUE,  val |-> 85 * Scale]
      [] s = "150" -> [ok |-> TRUE,  val |-> 150 * Scale]
      [] OTHER     -> [ok |-> FALSE, val |-> 0]

DefaultThreshold == (50 * Scale) \div 100

\* main(): threshold = threshold_val / 100, or 0.50 when float() raises
ReadThresholdValue(s) ==
    IF ParseFloat(s).ok THEN ParseFloat(s).val \div 100 ELSE DefaultThreshold

similarity_risk_level_strict(score) ==
    IF score > 85 * Scale THEN "HIGH RISK"
    ELSE IF score > 70 * Scale THEN "MEDIUM RISK"
    ELSE IF score > 50 * Scale THEN "MILD SIMILARITY"
    ELSE "SAFE"

\* checker.py
similarity_risk_level(score) ==
    IF score >= 85 * Scale THEN "HIGH RISK"
    ELSE IF score >= 70 * Scale THEN "MEDIUM RISK"
    ELSE IF score >= 50 * Scale THEN "MILD SIMILARITY"
    ELSE "SAFE"

\* gui_app.py
gui_similarity_risk_level(score) ==
    IF score >= 85 * Scale THEN "HIGH RISK"
    ELSE IF score >= 70 * Scale THEN "MEDIUM RISK"
    ELSE IF score >= 50 * Scale THEN "MILD SIMILARITY"
    ELSE "SAFE"

\* f"{score:.2f}": the score rounded to hundredths of a percent
Fmt2(score) == (2 * score + Resolution) \div (2 * Resolution)

\* sorted(folder.glob("*.*")): the entries whose name contains a dot
RECURSIVE GlobFrom(_, _)
GlobFrom(listing, k) ==
    IF k > Len(listing) THEN <<>>
    ELSE IF listing[k].ext # "" THEN <<k>> \o GlobFrom(listing, k + 1)
    ELSE GlobFrom(listing, k + 1)

Glob(listing) == GlobFrom(listing, 1)

RECURSIVE FlattenFromDiagonal(_, _, _, _)
FlattenFromDiagonal(names, M, i, j) ==
    IF i > Len(names) THEN <<>>
    ELSE IF j > Len(names) THEN FlattenFromDiagonal(names, M, i + 1, i + 1)
    ELSE <<<<names[i], names[j], M[<<i, j>>] * 100>>>>
             \o FlattenFromDiagonal(names, M, i, j + 1)

FlattenPairsWithDiagonal(names, M) == FlattenFromDiagonal(names, M, 1, 1)

\* the nested loop, from position (i, j) on
RECURSIVE FlattenFrom(_, _, _, _)
FlattenFrom(names, M, i, j) ==
    IF i > Len(names) THEN <<>>
    ELSE IF j > Len(names) THEN FlattenFrom(names, M, i + 1, i + 2)
    ELSE <<<<names[i], names[j], M[<<i, j>>] * 100>>>>
             \o FlattenFrom(names, M, i, j + 1)

\* for i in range(n): for j in range(i + 1, n): results.append(...)
FlattenPairs(names, M) == FlattenFrom(names, M, 1, 2)

RECURSIVE InsertDescBeforeTies(_, _)
InsertDescBeforeTies(s, r) ==
    IF s = <<>> THEN <<r>>
    ELSE IF Head(s)[3] > r[3]
         THEN <<Head(s)>> \o InsertDescBeforeTies(Tail(s), r)
         ELSE <<r>> \o s

RECURSIVE SortFromTiesReversed(_, _)
SortFromTiesReversed(acc, rest) ==
    IF rest = <<>> THEN acc
    ELSE SortFromTiesReversed(InsertDescBeforeTies(acc, Head(rest)), Tail(rest))

SortByScoreDescTiesReversed(rs) == SortFromTiesReversed(<<>>, rs)

\* r goes behind every element whose key is not smaller: equal keys keep
\* their input order
RECURSIVE InsertDesc(_, _)
InsertDesc(s, r) ==
    IF s = <<>> THEN <<r>>
    ELSE IF Head(s)[3] >= r[3]
         THEN <<Head(s)>> \o InsertDesc(Tail(s), r)
         ELSE <<r>> \o s

RECURSIVE SortFrom(_, _)
SortFrom(acc, rest) ==
    IF rest = <<>> THEN acc
    ELSE SortFrom(InsertDesc(acc, Head(rest)), Tail(rest))

\* results.sort(key=lambda x: x[2], reverse=True): stable, descending
SortByScoreDesc(rs) == SortFrom(<<>>, rs)

RECURSIVE SumScores(_)
SumScores(rs) == IF rs = <<>> THEN 0 ELSE Head(rs)[3] + SumScores(Tail(rs))

SummaryStatsOverDocs(docs, rs) ==
    [ total_documents   |-> Len(docs),
      total_comparisons |-> Len(rs),
      highest           |-> rs[1],
      lowest            |-> rs[Len(rs)],
      avg               |-> [num |-> SumScores(rs), den |-> Len(docs)] ]

\* highest = results[0]; lowest = results[-1]; avg = sum(...) / len(results)
SummaryStats(docs, rs) ==
    [ total_documents   |-> Len(docs),
      total_comparisons |-> Len(rs),
      highest           |-> rs[1],
      lowest            |-> rs[Len(rs)],
      avg               |-> [num |-> SumScores(rs), den |-> Len(rs)] ]

----------------------------------------------------------------------------
(* Report writers *)

ReportRowsAboveThreshold(rs) ==
    LET kept == SelectSeq(rs, LAMBDA r : r[3] >= threshold * 100)
    IN  [k \in 1..Len(kept) |->
            <<kept[k][1], kept[k][2], Fmt2(kept[k][3]), similarity_risk_level(kept[k][3])>>]

\* the row loops of the CSV, TXT and XLSX writers of generate_report
ReportRows(rs) ==
    [k \in 1..Len(rs) |->
        <<rs[k][1], rs[k][2], Fmt2(rs[k][3]), similarity_risk_level(rs[k][3])>>]

\* console loop of generate_report: only the lines at or above the threshold
ConsoleLines(rs, thr) ==
    LET kept == SelectSeq(rs, LAMBDA r : r[3] >= thr * 100)
    IN  [k \in 1..Len(kept) |->
            [flag |-> TRUE,
             row  |-> <<kept[k][1], kept[k][2], Fmt2(kept[k][3]),
                        similarity_risk_level(kept[k][3])>>]]

\* st.write loop of the GUI: every line, marked above / below the threshold
GuiLines(rs, thr) ==
    [k \in 1..Len(rs) |->
        [flag |-> rs[k][3] >= thr,
         row  |-> <<rs[k][1], rs[k][2], Fmt2(rs[k][3]),
                    gui_similarity_risk_level(rs[k][3])>>]]

create_excel_report(rs) ==
    [k \in 1..Len(rs) |->
        <<rs[k][1], rs[k][2], Fmt2(rs[k][3]), gui_similarity_risk_level(rs[k][3])>>]

max_rows == 80

\* the detail loop of create_pdf_report from the row after `count` drawn rows:
\* the rows it draws and whether it draws the truncation notice
RECURSIVE PdfDetail(_, _)
PdfDetail(rs, count) ==
    IF rs = <<>> THEN [rows |-> <<>>, notice |-> FALSE]
    ELSE LET r    == Head(rs)
             line == <<r[1], r[2], Fmt2(r[3]), gui_similarity_risk_level(r[3])>>
         IN  IF count + 1 >= max_rows
             THEN [rows |-> <<line>>, notice |-> TRUE]
             ELSE LET rest == PdfDetail(Tail(rs), count + 1)
                  IN  [rows |-> <<line>> \o rest.rows, notice |-> rest.notice]

create_pdf_report(rs, highest, lowest, avg, num_docs, num_comparisons) ==
    [ summary |-> [total_documents |-> num_docs, total_comparisons |-> num_comparisons,
                   highest |-> highest, lowest |-> lowest, avg |-> avg],
      detail  |-> PdfDetail(rs, 0) ]

----------------------------------------------------------------------------
(* Initial states *)

InitClassifierIdle ==
    /\ rl_score = 0
    /\ rl_cli = ""
    /\ rl_gui = ""

InitRunState ==
    /\ files = <<>>
    /\ idx = 1
    /\ texts = <<>>
    /\ valid_files = <<>>
    /\ warnings = <<>>
    /\ vec_calls = <<>>
    /\ sim_matrix = <<>>
    /\ results = <<>>
    /\ stats = <<>>
    /\ display = <<>>
    /\ reports = <<>>
    /\ outcome = "running"

InitCli ==
    /\ app = "cli"
    /\ folder_exists \in BOOLEAN
    /\ entries \in (IF folder_exists THEN Listings(FolderKinds) ELSE {<<>>})
    /\ thr_input \in ThresholdInputs
    /\ threshold = -1
    /\ pc = "threshold"
    /\ InitRunState

\* the uploader only accepts txt / pdf / docx; the slider holds an integer percent
InitGui ==
    /\ app = "gui"
    /\ folder_exists = FALSE
    /\ entries \in Listings(SupportedKinds)
    /\ thr_input = ""
    /\ threshold \in { v * Scale : v \in SliderValues }
    /\ pc = "button"
    /\ InitRunState

Init == (InitCli \/ InitGui) /\ InitClassifierIdle

----------------------------------------------------------------------------
(* checker.py *)

Halt(how) ==
    /\ pc' = "done"
    /\ outcome' = how

\* main(): the threshold prompt, try / except Exception
ReadThreshold ==
    /\ app = "cli" /\ pc = "threshold"
    /\ threshold' = ReadThresholdValue(thr_input)
    /\ pc' = "open"
    /\ UNCHANGED <<app, folder_exists, entries, thr_input, files, idx, texts,
                   valid_files, warnings, vec_calls, sim_matrix, results, stats,
                   display, reports, outcome, rl_vars>>

\* load_documents(): is_dir check and glob
LoadOpen ==
    /\ app = "cli" /\ pc = "open"
    /\ IF ~folder_exists
       THEN /\ Halt("folder_not_found")
            /\ UNCHANGED files
       ELSE /\ files' = Glob(entries)
            /\ pc' = "load"
            /\ UNCHANGED outcome
    /\ UNCHANGED <<app, folder_exists, entries, thr_input, threshold, idx, texts,
                   valid_files, warnings, vec_calls, sim_matrix, results, stats,
                   display, reports, rl_vars>>

IsSupported(ext) == ext \in {"txt", "pdf", "docx"}

\* load_documents(): one iteration of `for f in files`
LoadFile ==
    /\ app = "cli" /\ pc = "load" /\ idx <= Len(files)
    /\ LET f   == entries[files[idx]]
           ext == Lower(f.ext)
       IN  IF ~IsSupported(ext)
           THEN \* print "Skipping unsupported file"; continue
                /\ warnings' = Append(warnings, <<"unsupported", files[idx]>>)
                /\ idx' = idx + 1
                /\ UNCHANGED <<texts, valid_files, pc, outcome>>
           ELSE IF ~f.readable
           THEN \* read_text / PdfReader / Document raises; nothing catches it
                /\ Halt("extraction_error")
                /\ UNCHANGED <<texts, valid_files, warnings, idx>>
           ELSE IF NonEmptyText(f.body)
           THEN /\ texts' = Append(texts, f.body)
                /\ valid_files' = Append(valid_files, files[idx])
                /\ idx' = idx + 1
                /\ UNCHANGED <<warnings, pc, outcome>>
           ELSE /\ warnings' = Append(warnings, <<"empty", files[idx]>>)
                /\ idx' = idx + 1
                /\ UNCHANGED <<texts, valid_files, pc, outcome>>
    /\ UNCHANGED <<app, folder_exists, entries, thr_input, threshold, files,
                   vec_calls, sim_matrix, results, stats, display, reports, rl_vars>>

\* load_documents(): after the loop
LoadReturn ==
    /\ app = "cli" /\ pc = "load" /\ idx > Len(files)
    /\ IF valid_files = <<>>
       THEN Halt("no_valid_documents")
       ELSE pc' = "similarity" /\ UNCHANGED outcome
    /\ UNCHANGED <<app, folder_exists, entries, thr_input, threshold, files, idx,
                   texts, valid_files, warnings, vec_calls, sim_matrix, results,
                   stats, display, reports, rl_vars>>

UpperPairs(n) == { p \in (1..n) \X (1..n) : p[1] < p[2] }

\* what cosine_similarity(tfidf) can return for n texts: symmetric, diagonal 1.0
SimilarityMatrices(n) ==
    { [p \in (1..n) \X (1..n) |->
          IF p[1] = p[2] THEN Scale
          ELSE IF p[1] < p[2] THEN u[p] ELSE u[<<p[2], p[1]>>]]
      : u \in [UpperPairs(n) -> MatrixValues] }

\* main(): compute_similarity_matrix / compute_semantic_similarity
ComputeSimilarity ==
    /\ app = "cli" /\ pc = "similarity"
    /\ vec_calls' = Append(vec_calls, Len(texts))
    /\ \E M \in SimilarityMatrices(Len(texts)) : sim_matrix' = <<M>>
    /\ pc' = "flatten"
    /\ UNCHANGED <<app, folder_exists, entries, thr_input, threshold, files, idx,
                   texts, valid_files, warnings, results, stats, display, reports,
                   outcome, rl_vars>>

NoPairsNeverTaken(rs) == FALSE

\* generate_report(): `if not results`
NoPairs(rs) == rs = <<>>

\* generate_report(): the flattening loop and the empty check
GenerateReportFlatten ==
    /\ app = "cli" /\ pc = "flatten"
    /\ LET rs == FlattenPairs(valid_files, sim_matrix[1])
       IN  /\ results' = rs
           /\ IF NoPairs(rs)
              THEN Halt("no_pairs")
              ELSE pc' = "summary" /\ UNCHANGED outcome
    /\ UNCHANGED <<app, folder_exists, entries, thr_input, threshold, files, idx,
                   texts, valid_files, warnings, vec_calls, sim_matrix, stats,
                   display, reports, rl_vars>>

\* generate_report(): sort, highest, lowest, avg
GenerateReportSummary ==
    /\ app = "cli" /\ pc = "summary"
    /\ LET rs == SortByScoreDesc(results)
       IN  /\ results' = rs
           /\ IF rs = <<>>
              THEN \* results[0] raises IndexError
                   /\ Halt("index_error")
                   /\ UNCHANGED stats
              ELSE /\ stats' = <<SummaryStats(valid_files, rs)>>
                   /\ pc' = "output"
                   /\ UNCHANGED outcome
    /\ UNCHANGED <<app, folder_exists, entries, thr_input, threshold, files, idx,
                   texts, valid_files, warnings, vec_calls, sim_matrix, display,
                   reports, rl_vars>>

\* generate_report(): console lines, CSV, TXT and XLSX
GenerateReportOutput ==
    /\ app = "cli" /\ pc = "output"
    /\ display' = ConsoleLines(results, threshold)
    /\ reports' = << [ csv  |-> ReportRows(results),
                       txt  |-> [summary |-> stats[1], rows |-> ReportRows(results)],
                       xlsx |-> ReportRows(results) ] >>
    /\ Halt("report")
    /\ UNCHANGED <<app, folder_exists, entries, thr_input, threshold, files, idx,
                   texts, valid_files, warnings, vec_calls, sim_matrix, results,
                   stats, rl_vars>>

----------------------------------------------------------------------------
(* gui_app.py *)

\* extract_text(file): the text, or the reader / parser raises
extract_text(f) ==
    LET name == Lower(f.ext)
    IN  IF name \in {"txt", "pdf", "docx"}
        THEN [raised |-> ~f.readable, text |-> IF f.readable THEN f.body ELSE <<>>]
        ELSE [raised |-> FALSE, text |-> <<>>]

\* `if st.button(...)`: at least two uploads are needed
GuiButton ==
    /\ app = "gui" /\ pc = "button"
    /\ IF Len(entries) < 2
       THEN /\ Halt("upload_two")
            /\ UNCHANGED files
       ELSE /\ files' = [k \in 1..Len(entries) |-> k]
            /\ pc' = "extract"
            /\ UNCHANGED outcome
    /\ UNCHANGED <<app, folder_exists, entries, thr_input, threshold, idx, texts,
                   valid_files, warnings, vec_calls, sim_matrix, results, stats,
                   display, reports, rl_vars>>

\* one iteration of `for f in uploaded_files`
GuiExtract ==
    /\ app = "gui" /\ pc = "extract" /\ idx <= Len(files)
    /\ LET r == extract_text(entries[files[idx]])
       IN  IF r.raised
           THEN /\ Halt("extraction_error")
                /\ UNCHANGED <<texts, valid_files, warnings, idx>>
           ELSE IF NonEmptyText(r.text)
           THEN /\ texts' = Append(texts, r.text)
                /\ valid_files' = Append(valid_files, files[idx])
                /\ idx' = idx + 1
                /\ UNCHANGED <<warnings, pc, outcome>>
           ELSE /\ warnings' = Append(warnings, <<"empty", files[idx]>>)
                /\ idx' = idx + 1
                /\ UNCHANGED <<texts, valid_files, pc, outcome>>
    /\ UNCHANGED <<app, folder_exists, entries, thr_input, threshold, files,
                   vec_calls, sim_matrix, results, stats, display, reports, rl_vars>>

\* `if len(texts) < 2` and compute_similarity
GuiCompute ==
    /\ app = "gui" /\ pc = "extract" /\ idx > Len(files)
    /\ IF Len(texts) < 2
       THEN /\ Halt("not_enough_valid")
            /\ UNCHANGED <<vec_calls, sim_matrix>>
       ELSE /\ vec_calls' = Append(vec_calls, Len(texts))
            /\ \E M \in SimilarityMatrices(Len(texts)) : sim_matrix' = <<M>>
            /\ pc' = "gui_results"
            /\ UNCHANGED outcome
    /\ UNCHANGED <<app, folder_exists, entries, thr_input, threshold, files, idx,
                   texts, valid_files, warnings, results, stats, display, reports,
                   rl_vars>>

\* flattening loop, sort and summary of the GUI run
GuiResults ==
    /\ app = "gui" /\ pc = "gui_results"
    /\ LET rs == SortByScoreDesc(FlattenPairs(valid_files, sim_matrix[1]))
       IN  /\ results' = rs
           /\ IF rs = <<>>
              THEN \* results[0] raises IndexError
                   /\ Halt("index_error")
                   /\ UNCHANGED stats
              ELSE /\ stats' = <<SummaryStats(valid_files, rs)>>
                   /\ pc' = "gui_output"
                   /\ UNCHANGED outcome
    /\ UNCHANGED <<app, folder_exists, entries, thr_input, threshold, files, idx,
                   texts, valid_files, warnings, vec_calls, sim_matrix, display,
                   reports, rl_vars>>

\* result lines and the two downloads
GuiOutput ==
    /\ app = "gui" /\ pc = "gui_output"
    /\ display' = GuiLines(results, threshold)
    /\ reports' = << [ xlsx |-> create_excel_report(results),
                       pdf  |-> create_pdf_report(results, stats[1].highest,
                                    stats[1].lowest, stats[1].avg,
                                    stats[1].total_documents,
                                    stats[1].total_comparisons) ] >>
    /\ Halt("report")
    /\ UNCHANGED <<app, folder_exists, entries, thr_input, threshold, files, idx,
                   texts, valid_files, warnings, vec_calls, sim_matrix, results,
                   stats, rl_vars>>

----------------------------------------------------------------------------
(* The two runs *)

Next ==
    \/ ReadThreshold
    \/ LoadOpen
    \/ LoadFile
    \/ LoadReturn
    \/ ComputeSimilarity
    \/ GenerateReportFlatten
    \/ GenerateReportSummary
    \/ GenerateReportOutput
    \/ GuiButton
    \/ GuiExtract
    \/ GuiCompute
    \/ GuiResults
    \/ GuiOutput

Spec == Init /\ [][Next]_vars

----------------------------------------------------------------------------
(* The risk classifier on its own: every score from 0.00 to 100.00 percent *)

ScoreInputs == 0..(100 * Scale)

RaiseSteps == {1, Scale, 20 * Scale}

InitRisk ==
    /\ app = "none"
    /\ folder_exists = FALSE
    /\ entries = <<>>
    /\ thr_input = ""
    /\ threshold = -1
    /\ pc = "classify"
    /\ InitRunState
    /\ rl_score \in ScoreInputs
    /\ rl_cli = ""
    /\ rl_gui = ""

\* both copies of similarity_risk_level applied to the score
RiskClassify ==
    /\ app = "none" /\ pc = "classify"
    /\ rl_cli' = similarity_risk_level(rl_score)
    /\ rl_gui' = gui_similarity_risk_level(rl_score)
    /\ pc' = "classified"
    /\ UNCHANGED <<app, folder_exists, entries, thr_input, threshold, files, idx,
                   texts, valid_files, warnings, vec_calls, sim_matrix, results,
                   stats, display, reports, outcome, rl_score>>

\* a higher score is classified next
RiskRaise ==
    /\ app = "none" /\ pc = "classified"
    /\ \E d \in RaiseSteps :
          /\ rl_score + d \in ScoreInputs
          /\ rl_score' = rl_score + d
    /\ rl_cli' = similarity_risk_level(rl_score')
    /\ rl_gui' = gui_similarity_risk_level(rl_score')
    /\ UNCHANGED <<app, folder_exists, entries, thr_input, threshold, pc, files, idx,
                   texts, valid_files, warnings, vec_calls, sim_matrix, results,
                   stats, display, reports, outcome>>

NextRisk == RiskClassify \/ RiskRaise

SpecRisk == InitRisk /\ [][NextRisk]_vars

----------------------------------------------------------------------------
(* Vocabulary of the properties *)

Range(seq) == { seq[k] : k \in 1..Len(seq) }

Blank(text) == \A k \in 1..Len(text) : text[k] \in {" ", "\n", "\t"}

SupportedType(f) == f.ext \in {"txt", "pdf", "docx", "TXT", "PDF", "DOCX"}

\* documents of the input that can be scored
ValidDocs ==
    { k \in 1..Len(entries) :
        SupportedType(entries[k]) /\ entries[k].readable /\ ~Blank(entries[k].body) }

\* documents of the input whose read or parse raises
UnreadableDocs ==
    { k \in 1..Len(entries) : SupportedType(entries[k]) /\ ~entries[k].readable }

\* documents of the input that must be skipped with a warning
SkippedDoc(k) ==
    \/ ~SupportedType(entries[k])
    \/ entries[k].readable /\ Blank(entries[k].body)

Warned(k) == \E w \in 1..Len(warnings) : warnings[w][2] = k

ExtractionComplete == pc \notin {"threshold", "open", "button"} /\ idx > Len(files)
                      /\ outcome \notin {"folder_not_found", "upload_two"}

Flattened == Len(sim_matrix) = 1 /\ pc \notin {"flatten", "gui_results"}

Sorted == pc \in {"output", "gui_output"} \/ outcome = "report"

PosOf(name) == CHOOSE i \in 1..Len(valid_files) : valid_files[i] = name

EnumBefore(r1, r2) ==
    \/ PosOf(r1[1]) < PosOf(r2[1])
    \/ PosOf(r1[1]) = PosOf(r2[1]) /\ PosOf(r1[2]) < PosOf(r2[2])

RiskRank(label) ==
    CASE label = "SAFE"            -> 0
      [] label = "MILD SIMILARITY" -> 1
      [] label = "MEDIUM RISK"     -> 2
      [] label = "HIGH RISK"       -> 3
      [] OTHER                     -> -1

\* the label table of the specification
LabelOf(score) ==
    CASE score >= 85 * Scale                        -> "HIGH RISK"
      [] score >= 70 * Scale /\ score < 85 * Scale  -> "MEDIUM RISK"
      [] score >= 50 * Scale /\ score < 70 * Scale  -> "MILD SIMILARITY"
      [] score < 50 * Scale                         -> "SAFE"

RECURSIVE SumOver(_, _)
SumOver(S, f) ==
    IF S = {} THEN 0
    ELSE LET x == CHOOSE y \in S : TRUE IN f[x] + SumOver(S \ {x}, f)

ThresholdPercent == IF app = "cli" THEN threshold * 100 ELSE threshold

----------------------------------------------------------------------------
(* C1: once the flattening loop has run over n valid documents and the     *)
(* matrix M, there are exactly n*(n-1)/2 results, each is (name of i, name *)
(* of j, M[i,j]*100) for some i < j, every unordered pair of distinct      *)
(* documents occurs exactly once and no document is paired with itself.    *)
C1_FlattenExact ==
    Flattened =>
        LET n == Len(valid_files)
            M == sim_matrix[1]
        IN  /\ 2 * Len(results) = n * (n - 1)
            /\ \A k \in 1..Len(results) :
                  \E i, j \in 1..n :
                     /\ i < j
                     /\ results[k] = <<valid_files[i], valid_files[j], M[<<i, j>>] * 100>>
            /\ \A i, j \in 1..n :
                  Cardinality({ k \in 1..Len(results) :
                                  {results[k][1], results[k][2]}
                                      = {valid_files[i], valid_files[j]} })
                      = IF i = j THEN 0 ELSE 1

C1_Witness ==
    /\ Flattened
    /\ Len(valid_files) = 3
    /\ Len(results) = 3
    /\ \E a, b \in 1..3 : results[a][3] # results[b][3]

(* C2: in the classifier run each score gets the label of the table (>= 85 *)
(* HIGH RISK, [70,85) MEDIUM RISK, [50,70) MILD SIMILARITY, < 50 SAFE), the *)
(* two copies agree, and classifying a higher score next never yields a    *)
(* lower-risk label.                                                       *)
C2_RiskBoundaries ==
    /\ [](pc = "classified" =>
             /\ rl_cli = LabelOf(rl_score)
             /\ rl_gui = rl_cli)
    /\ [][(pc = "classified" /\ rl_score' >= rl_score) =>
             RiskRank(rl_cli') >= RiskRank(rl_cli)]_vars

C2_Witness ==
    /\ pc = "classified"
    /\ rl_score = 85 * Scale
    /\ rl_cli = "HIGH RISK"
    /\ rl_gui = "HIGH RISK"

(* C3: after the sort the results are in non-increasing order of score and *)
(* results of equal score are in the order of the i<j enumeration.         *)
C3_SortedStable ==
    Sorted =>
        \A a, b \in 1..Len(results) :
            a < b =>
                /\ results[a][3] >= results[b][3]
                /\ results[a][3] = results[b][3] => EnumBefore(results[a], results[b])

C3_Witness ==
    /\ Sorted
    /\ \E a, b \in 1..Len(results) : a < b /\ results[a][3] = results[b][3]
    /\ \E a, b \in 1..Len(results) : a < b /\ ~EnumBefore(results[a], results[b])

(* C4: once the summary is computed, total_documents is the number of      *)
(* valid documents, total_comparisons the number of results, highest the   *)
(* first and a maximum, lowest the last and a minimum, and the average the *)
(* sum of all pair scores over total_comparisons; a finished run with a    *)
(* non-empty result list has a summary.                                    *)
C4_SummaryStats ==
    /\ Sorted =>
          /\ Len(stats) = 1
          /\ results # <<>>
          /\ LET st == stats[1]
                 n  == Len(valid_files)
                 M  == sim_matrix[1]
             IN  /\ st.total_documents = Cardinality(ValidDocs)
                 /\ st.total_comparisons = Len(results)
                 /\ st.highest = results[1]
                 /\ \A k \in 1..Len(results) : results[k][3] <= st.highest[3]
                 /\ st.lowest = results[Len(results)]
                 /\ \A k \in 1..Len(results) : results[k][3] >= st.lowest[3]
                 /\ st.avg.den = st.total_comparisons
                 /\ st.avg.num = 100 * SumOver(UpperPairs(n), M)
    /\ (pc = "done" /\ Flattened /\ results # <<>>) => Len(stats) = 1

C4_Witness ==
    /\ Sorted
    /\ Len(results) = 3
    /\ stats[1].highest[3] > stats[1].lowest[3]
    /\ stats[1].total_documents = 3

(* C5 (as claimed): a document whose read or parse raises is dropped with  *)
(* a warning and the run goes on: the run never ends in the extraction     *)
(* error, and every such document already passed by the loop is warned     *)
(* about and kept out of the corpus.                                       *)
C5_ExtractionFailureIsLocal ==
    /\ outcome # "extraction_error"
    /\ \A p \in 1..Len(files) :
          (p < idx /\ files[p] \in UnreadableDocs) =>
              Warned(files[p]) /\ files[p] \notin Range(valid_files)

C7_SingleDocumentOutcome ==
    (pc = "done" /\ ExtractionComplete /\ Cardinality(ValidDocs) = 1) =>
        /\ results = <<>>
        /\ stats = <<>>
        /\ reports = <<>>
        /\ outcome = IF app = "cli" THEN "no_pairs" ELSE "not_enough_valid"

C7_Witness ==
    /\ pc = "done"
    /\ app = "cli"
    /\ Len(valid_files) = 1
    /\ vec_calls = <<1>>
    /\ outcome = "no_pairs"

(* C8: in a finished run the report rows are the rows of the sorted pair  *)
(* list of the corpus and the matrix -- one row per pair result, in that   *)
(* order, with its formatted score and its label of the table -- and the   *)
(* report summaries are the summary of that list; none of these depends on *)
(* the threshold.  The threshold only decides the flagged lines: the       *)
(* console shows exactly the results at or above it, the GUI shows every   *)
(* result and marks exactly those at or above it.                          *)
C8_ThresholdOnlyFlags ==
    outcome = "report" =>
        LET full == SortByScoreDesc(FlattenPairs(valid_files, sim_matrix[1]))
            rows == [k \in 1..Len(full) |->
                        <<full[k][1], full[k][2], Fmt2(full[k][3]), LabelOf(full[k][3])>>]
            above == { k \in 1..Len(full) : full[k][3] >= ThresholdPercent }
        IN  /\ Len(rows) = Len(results)
            /\ 2 * Len(rows) = Len(valid_files) * (Len(valid_files) - 1)
            /\ IF app = "cli"
               THEN /\ reports[1].csv = rows
                    /\ reports[1].xlsx = rows
                    /\ reports[1].txt.rows = rows
                    /\ reports[1].txt.summary = SummaryStats(valid_files, full)
                    /\ Len(display) = Cardinality(above)
                    /\ \A k \in 1..Len(rows) :
                          (k \in above) <=> (\E d \in 1..Len(display) : display[d].row = rows[k])
               ELSE /\ reports[1].xlsx = rows
                    /\ Len(rows) < max_rows =>
                          /\ reports[1].pdf.detail.rows = rows
                          /\ ~reports[1].pdf.detail.notice
                    /\ reports[1].pdf.summary = SummaryStats(valid_files, full)
                    /\ Len(display) = Len(rows)
                    /\ \A k \in 1..Len(rows) :
                          /\ display[k].row = rows[k]
                          /\ display[k].flag <=> (k \in above)

C8_Witness ==
    /\ outcome = "report"
    /\ app = "cli"
    /\ Len(results) = 3
    /\ Len(display) = 1
    /\ Len(reports[1].csv) = 3

(* C9 (as claimed): once the prompt is answered, an input that is a number *)
(* v between 0 and 100 gives the threshold v percent, and every other      *)
(* input gives the default threshold of 50 percent.                        *)
ThresholdInputValid(s) ==
    /\ ParseFloat(s).ok
    /\ ParseFloat(s).val >= 0
    /\ ParseFloat(s).val <= 100 * Scale

C9_InvalidThresholdFallsBack ==
    (app = "cli" /\ pc # "threshold") =>
        IF ThresholdInputValid(thr_input)
        THEN threshold * 100 = ParseFloat(thr_input).val
        ELSE threshold * 100 = 50 * Scale

(* C10 (as claimed): a missing folder or zero valid documents ends the run *)
(* in its own outcome with no vectorizer call and no report; the           *)
(* vectorizer is called at most once, with at least one text; and a        *)
(* finished run without a report had a missing folder or fewer than two    *)
(* valid documents.                                                        *)
C10_OnlyInputConditionsHalt ==
    app = "cli" =>
        /\ Len(vec_calls) <= 1
        /\ \A c \in 1..Len(vec_calls) : vec_calls[c] >= 1
        /\ outcome \in {"folder_not_found", "no_valid_documents"} =>
              vec_calls = <<>> /\ sim_matrix = <<>> /\ reports = <<>>
        /\ (pc = "done" /\ ~folder_exists) => outcome = "folder_not_found"
        /\ (pc = "done" /\ folder_exists /\ ExtractionComplete /\ valid_files = <<>>) =>
              outcome = "no_valid_documents"
        /\ (pc = "done" /\ outcome # "report") =>
              ~folder_exists \/ Cardinality(ValidDocs) < 2

----------------------------------------------------------------------------
(* create_pdf_report on its own: sorted result lists of every length up to *)
(* MaxPdfResults, document 1 paired with documents 2, 3, ...               *)

MaxPdfResults == 82

\* a sorted list of len results: the first high ones score 90%, the rest 20%
PdfResults(len, high) ==
    [k \in 1..len |-> <<1, k + 1, IF k <= high THEN 90 * Scale ELSE 20 * Scale>>]

InitPdf ==
    /\ app = "pdf"
    /\ folder_exists = FALSE
    /\ entries = <<>>
    /\ thr_input = ""
    /\ threshold = -1
    /\ pc = "pdf_call"
    /\ files = <<>>
    /\ idx = 1
    /\ texts = <<>>
    /\ warnings = <<>>
    /\ vec_calls = <<>>
    /\ sim_matrix = <<>>
    /\ display = <<>>
    /\ reports = <<>>
    /\ outcome = "running"
    /\ \E len \in 1..MaxPdfResults : \E high \in 0..len :
          /\ results = PdfResults(len, high)
          /\ valid_files = [k \in 1..(len + 1) |-> k]
          /\ stats = <<SummaryStats(valid_files, results)>>
    /\ InitClassifierIdle

\* pdf_buffer = create_pdf_report(results, highest, lowest, avg, num_docs, num_comparisons)
PdfReport ==
    /\ app = "pdf" /\ pc = "pdf_call"
    /\ reports' = << [ pdf |-> create_pdf_report(results, stats[1].highest,
                                   stats[1].lowest, stats[1].avg,
                                   stats[1].total_documents,
                                   stats[1].total_comparisons) ] >>
    /\ Halt("report")
    /\ UNCHANGED <<app, folder_exists, entries, thr_input, threshold, files, idx,
                   texts, valid_files, warnings, vec_calls, sim_matrix, results,
                   stats, display, rl_vars>>

NextPdf == PdfReport

SpecPdf == InitPdf /\ [][NextPdf]_vars

====
